---- MODULE Spec2Model ----
(***************************************************************************)
(* A model of the link archiver: the link extractor (extract_links.py),    *)
(* the two archive services with their retry loops (archive_services.py)   *)
(* and the orchestrator with its log file (archive_links.py).              *)
(*                                                                         *)
(* Three specifications share the variables:                               *)
(*   ExtractSpec  get_links_from_all_yaml_files over parsed YAML trees     *)
(*   ServiceSpec  archive_url / archive_url_wayback /                      *)
(*                archive_url_archive_today, one HTTP exchange per step    *)
(*   Spec         main(), run after run, with interruption                 *)
(***************************************************************************)
EXTENDS Integers, Sequences, FiniteSets, TLC

\* ------------------------------------------------------------------------
\* The URL pattern of is_url, matched character by character on a string
\* given as the sequence of its characters (Chars, below).
\* ------------------------------------------------------------------------

Lower == {"a","b","c","d","e","f","g","h","i","j","k","l","m",
          "n","o","p","q","r","s","t","u","v","w","x","y","z"}

Upper == {"A","B","C","D","E","F","G","H","I","J","K","L","M",
          "N","O","P","Q","R","S","T","U","V","W","X","Y","Z"}

Digit == {"0","1","2","3","4","5","6","7","8","9"}

\* [a-zA-Z]
Alpha == Lower \cup Upper

\* [a-zA-Z0-9-]
DomainChar == Alpha \cup Digit \cup {"-"}

\* \s
Whitespace == {" ", "\t", "\n", "\r"}

SeqRange(s) == {s[i] : i \in 1..Len(s)}

NoDuplicates(s) == \A i, j \in 1..Len(s) : s[i] = s[j] => i = j

\* s[a..b] reads ([a-zA-Z0-9-]+\.)*[a-zA-Z0-9-]+ : labels of domain
\* characters separated by single dots.
IsHost(s, a, b) ==
    /\ a <= b
    /\ \A k \in a..b : s[k] \in DomainChar \cup {"."}
    /\ s[a] \in DomainChar
    /\ s[b] \in DomainChar
    /\ \A k \in a..(b - 1) : ~(s[k] = "." /\ s[k + 1] = ".")

\* s[p..] reads (\/[^\s]*)?$ ; Python's $ also matches before a final newline.
IsPathToEnd(s, p) ==
    LET n == Len(s)
        ends == {n} \cup (IF n >= 1 /\ s[n] = "\n" THEN {n - 1} ELSE {})
    IN \E e \in ends :
          \/ p = e + 1
          \/ /\ p <= e
             /\ s[p] = "/"
             /\ \A k \in (p + 1)..e : s[k] \notin Whitespace

HasPrefix(s, pre) ==
    /\ Len(s) >= Len(pre)
    /\ \A k \in 1..Len(pre) : s[k] = pre[k]

\* The positions at which the host may start: after the optional scheme.
HostStarts(s) ==
    {1} \cup (IF HasPrefix(s, <<"h","t","t","p",":","/","/">>) THEN {8} ELSE {})
        \cup (IF HasPrefix(s, <<"h","t","t","p","s",":","/","/">>) THEN {9} ELSE {})

\* The least number of letters of the final label: \.[a-zA-Z]{2,}
MinTldLen == 2

\* url_pattern.match(text): i is the dot before the final label, j its end.
MatchesUrlPattern(s) ==
    \E a \in HostStarts(s) : \E i \in (a + 1)..Len(s) :
      \E j \in (i + MinTldLen)..Len(s) :
        /\ IsHost(s, a, i - 1)
        /\ s[i] = "."
        /\ \A k \in (i + 1)..j : s[k] \in Alpha
        /\ IsPathToEnd(s, j + 1)

\* ------------------------------------------------------------------------
\* Parsed YAML: a value is a record [t, v], t its type.
\*   str   v: the string            list  v: the elements
\*   dict  v: the items, each [k, val], in the mapping's order
\*   none, int  v: <<>> (int stands for a nonzero number)
\* ------------------------------------------------------------------------

Str(s) == [t |-> "str", v |-> s]
List(xs) == [t |-> "list", v |-> xs]
Dict(items) == [t |-> "dict", v |-> items]
NoneVal == [t |-> "none", v |-> <<>>]
IntVal == [t |-> "int", v |-> <<>>]
Item(k, val) == [k |-> k, val |-> val]

\* Python's truth value of a parsed value.
Truthy(x) ==
    CASE x.t = "none" -> FALSE
      [] x.t = "int" -> TRUE
      [] x.t = "str" -> x.v # ""
      [] OTHER -> Len(x.v) > 0

\* The characters of the strings of the model.
Chars(name) ==
    CASE name = "https://a.b/c" ->
           <<"h","t","t","p","s",":","/","/","a",".","b","/","c">>
      [] name = "https://a.bc/c" ->
           <<"h","t","t","p","s",":","/","/","a",".","b","c","/","c">>
      [] name = "https://a.b" ->
           <<"h","t","t","p","s",":","/","/","a",".","b">>
      [] name = "https://c.d" ->
           <<"h","t","t","p","s",":","/","/","c",".","d">>
      [] name = "https://c.de" ->
           <<"h","t","t","p","s",":","/","/","c",".","d","e">>
      [] name = "not a url" ->
           <<"n","o","t"," ","a"," ","u","r","l">>
      [] name = "" -> <<>>

\* The strings of the trees.
StrNames == {"https://a.b/c", "https://a.bc/c", "https://a.b", "https://c.d",
             "https://c.de", "not a url", ""}

\* The strings that url_pattern.match accepts.
UrlShaped == {s \in StrNames : MatchesUrlPattern(Chars(s))}

\* is_url(text): a str that matches the pattern.
is_url(x) == x.t = "str" /\ x.v \in UrlShaped

\* A faulty variant of LinkListItems: every string element is taken, unchecked.
RECURSIVE LinkListItems_unchecked(_)
LinkListItems_unchecked(xs) ==
    IF xs = <<>> THEN <<>>
    ELSE (IF Head(xs).t = "str" THEN <<Head(xs).v>> ELSE <<>>)
         \o LinkListItems_unchecked(Tail(xs))

\* The links a sequence of values contributes when it sits under `link`:
\* its string elements that match the pattern.
RECURSIVE LinkListItems(_)
LinkListItems(xs) ==
    IF xs = <<>> THEN <<>>
    ELSE (IF is_url(Head(xs)) THEN <<Head(xs).v>> ELSE <<>>)
         \o LinkListItems(Tail(xs))

\* extract_links_from_dict(data) as [raised, links]. data.items() raises
\* AttributeError when data is not a mapping.
RECURSIVE extract_links_from_dict(_)
RECURSIVE ExtractItems(_)
RECURSIVE ExtractListItems(_)

\* The loop over the elements of a sequence value under a key other than
\* `link` (or under `link` when the value is falsy).
ExtractListItems(xs) ==
    IF xs = <<>> THEN [raised |-> FALSE, links |-> <<>>]
    ELSE LET x == Head(xs)
             here == IF x.t = "dict" THEN extract_links_from_dict(x)
                     ELSE IF is_url(x)
                          THEN [raised |-> FALSE, links |-> <<x.v>>]
                          ELSE [raised |-> FALSE, links |-> <<>>]
         IN IF here.raised THEN [raised |-> TRUE, links |-> <<>>]
            ELSE LET rest == ExtractListItems(Tail(xs))
                 IN [raised |-> rest.raised,
                     links |-> IF rest.raised THEN <<>>
                               ELSE here.links \o rest.links]

\* The loop over data.items().
ExtractItems(items) ==
    IF items = <<>> THEN [raised |-> FALSE, links |-> <<>>]
    ELSE LET key == Head(items).k
             value == Head(items).val
             here ==
               IF key = "link" /\ Truthy(value)
               THEN IF is_url(value)
                    THEN [raised |-> FALSE, links |-> <<value.v>>]
                    ELSE IF value.t = "list"
                         THEN [raised |-> FALSE, links |-> LinkListItems(value.v)]
                         ELSE [raised |-> FALSE, links |-> <<>>]
               ELSE IF value.t = "dict" THEN extract_links_from_dict(value)
               ELSE IF value.t = "list" THEN ExtractListItems(value.v)
               ELSE [raised |-> FALSE, links |-> <<>>]
         IN IF here.raised THEN [raised |-> TRUE, links |-> <<>>]
            ELSE LET rest == ExtractItems(Tail(items))
                 IN [raised |-> rest.raised,
                     links |-> IF rest.raised THEN <<>>
                               ELSE here.links \o rest.links]

extract_links_from_dict(data) ==
    IF data.t = "dict" THEN ExtractItems(data.v)
    ELSE [raised |-> TRUE, links |-> <<>>]

\* A faulty variant of UniqueOrders: the list is returned as collected.
UniqueOrders_keepDuplicates(links) == {links}

\* The orders list(set(links)) may produce: every duplicate-free sequence
\* with the elements of links (the order of a set of strings is not fixed).
UniqueOrders(links) ==
    LET S == SeqRange(links)
        n == Cardinality(S)
    IN {q \in [1..n -> S] : SeqRange(q) = S}

\* ------------------------------------------------------------------------
\* The working tree and its paths. A path is the sequence of its segments,
\* the file name split into stem and extension: ./d/b.yml is
\* <<".", "d", "b", ".yml">>, and d/b.yml is <<"d", "b", ".yml">>.
\* ------------------------------------------------------------------------

\* os.walk('.'): the (root, files) pairs, top down.
WalkOfWorkingTree ==
    << [root |-> <<".">>, files |-> << <<"a", ".yaml">>, <<"README", ".md">> >>],
       [root |-> <<".", ".github">>, files |-> << <<"w", ".yml">> >>],
       [root |-> <<".", "d">>, files |-> << <<"b", ".yml">> >>] >>

\* file.endswith(('.yaml', '.yml'))
EndsWithYaml(path) == Len(path) > 0 /\ path[Len(path)] \in {".yaml", ".yml"}

\* The directory names of the model whose text contains ".git".
DotGitNames == {".git", ".github"}

\* '.git' in root
ContainsDotGit(root) == \E i \in 1..Len(root) : root[i] \in DotGitNames

\* os.path.join(root, file)
PathJoin(root, file) == root \o file

RECURSIVE YamlFilesOf(_, _)
YamlFilesOf(root, files) ==
    IF files = <<>> THEN <<>>
    ELSE (IF EndsWithYaml(Head(files)) /\ ~ContainsDotGit(root)
          THEN <<PathJoin(root, Head(files))>> ELSE <<>>)
         \o YamlFilesOf(root, Tail(files))

RECURSIVE YamlFilesOfWalk(_)
YamlFilesOfWalk(walk) ==
    IF walk = <<>> THEN <<>>
    ELSE YamlFilesOf(Head(walk).root, Head(walk).files)
         \o YamlFilesOfWalk(Tail(walk))

\* get_all_yaml_files('.')
get_all_yaml_files == YamlFilesOfWalk(WalkOfWorkingTree)

\* ------------------------------------------------------------------------
\* The content of a file: [ok, data]; ok = FALSE when yaml.safe_load raises
\* yaml.YAMLError.
\* ------------------------------------------------------------------------

Parsed(data) == [ok |-> TRUE, data |-> data]
Unparsable == [ok |-> FALSE, data |-> NoneVal]

\* extract_links_from_yaml(path) on a file of this content: the set of
\* outcomes [raised, links] (the order of the unique list is not fixed).
extract_links_from_yaml(content) ==
    IF ~content.ok THEN {[raised |-> FALSE, links |-> <<>>]}
    ELSE IF ~Truthy(content.data) THEN {[raised |-> FALSE, links |-> <<>>]}
    ELSE LET r == extract_links_from_dict(content.data)
         IN IF r.raised THEN {[raised |-> TRUE, links |-> <<>>]}
            ELSE {[raised |-> FALSE, links |-> q] : q \in UniqueOrders(r.links)}

\* ------------------------------------------------------------------------
\* The parsed trees the extractor is run on.
\* ------------------------------------------------------------------------

\* The longest sequence value of a tree.
MaxListLen == 3

\* The elements of a sequence value.
ListElems == {Str("https://a.bc/c"), Str("https://c.de"), Str("https://a.b"),
              Str("https://c.d"), Str("not a url"), IntVal}

SeqsUpTo(S, n) == UNION {[1..k -> S] : k \in 0..n}

Scalars == {Str(s) : s \in StrNames} \cup {IntVal, NoneVal}

FlatLists == {List(q) : q \in SeqsUpTo(ListElems, MaxListLen)}

\* The values one level down: a mapping with a `link`, a sequence holding
\* such a mapping, a sequence in a sequence.
InnerDicts ==
    {Dict(<<Item("link", v)>>) :
        v \in {Str("https://a.bc/c"), Str("https://a.b/c"),
               List(<<Str("https://c.de"), Str("https://a.bc/c")>>)}}
    \cup {Dict(<<Item("refs", Dict(<<Item("link", Str("https://a.bc/c"))>>))>>)}

NestedVals ==
    InnerDicts
    \cup {List(<<d>>) : d \in InnerDicts}
    \cup {List(<<List(<<Str("https://a.bc/c")>>)>>),
          List(<<Str("https://c.de"), Dict(<<Item("link", Str("https://a.bc/c"))>>)>>)}

Values == Scalars \cup FlatLists \cup NestedVals

\* The values of the second key of a mapping with two keys.
SecondValues ==
    {Str("https://a.bc/c"), Str("https://a.b/c"),
     List(<<Str("https://a.bc/c")>>),
     Dict(<<Item("link", Str("https://a.bc/c"))>>)}

Keys == {"link", "refs"}

RootDicts ==
    {Dict(<<Item(k, v)>>) : k \in Keys, v \in Values}
    \cup {Dict(<<Item(k1, v1), Item(k2, v2)>>) :
            <<k1, k2>> \in {kk \in Keys \X Keys : kk[1] # kk[2]},
            v1 \in Values, v2 \in SecondValues}

\* The roots that are not a mapping.
OtherRoots ==
    {NoneVal, Dict(<<>>), List(<<>>), Str("https://a.bc/c"),
     List(<<Str("https://a.bc/c")>>),
     List(<<Dict(<<Item("link", Str("https://a.bc/c"))>>)>>)}

\* The contents of the first file, and of the files after it.
FirstContents ==
    {Parsed(r) : r \in RootDicts \cup OtherRoots} \cup {Unparsable}

LaterContents ==
    {Parsed(Dict(<<Item("link", Str("https://c.de"))>>)),
     Parsed(Dict(<<Item("link", Str("https://a.bc/c"))>>)),
     Parsed(Dict(<<Item("name", Str("not a url"))>>)),
     Unparsable}

\* The contents of the first n files.
RECURSIVE ContentsOfFiles(_)
ContentsOfFiles(n) ==
    IF n = 0 THEN {<<>>}
    ELSE IF n = 1 THEN {<<c>> : c \in FirstContents}
    ELSE {Append(cs, c) : cs \in ContentsOfFiles(n - 1), c \in LaterContents}

\* ------------------------------------------------------------------------
\* State.
\* ------------------------------------------------------------------------

VARIABLES
    ex_pc,        \* get_links_from_all_yaml_files: "off", "loop", "done", "raised"
    ex_contents,  \* the content of each file of yaml_files
    ex_idx,       \* the index in yaml_files of the next file
    ex_results,   \* results: the items [file, links] in insertion order
    ex_last       \* what the last extract_links_from_yaml call returned

exVars == <<ex_pc, ex_contents, ex_idx, ex_results, ex_last>>

VARIABLES
    sv_pc,           \* where the call stands: "off", "idle", "wayback",
                     \* "today_get", "today_post", "returned", "raised"
    sv_entry,        \* the function called: archive_url or one of the services
    sv_url,          \* url
    sv_max_retries,  \* max_retries of the service call in progress
    sv_attempt,      \* attempt
    sv_ret,          \* per service, what its function returned
    sv_results,      \* archive_url's results dict
    sv_events        \* the requests and sleeps of the call, in order

svVars == <<sv_pc, sv_entry, sv_url, sv_max_retries, sv_attempt, sv_ret,
            sv_results, sv_events>>

VARIABLES
    m_pc,            \* main(): "off", "start", "loop", "archiving", "save",
                     \* "dump", "done", "killed", "raised"
    now,             \* the clock, read at the granularity of runs
    disk,            \* logs/archive_log.json: [kind, doc]
    m_contents,      \* this run's content of each file of the working tree
    m_git,           \* this run's version-control history: [state, diff]
    log_data,        \* log_data["archived_links"]
    changed_files,   \* changed_files
    all_files_links, \* all_files_links: the items [file, links] in order
    m_file,          \* the index of the current file in all_files_links
    m_link,          \* the index of the current link in its file's links
    archive_results, \* archive_results
    m_discovered,    \* what get_links_from_all_yaml_files returned
    m_loaded,        \* what load_existing_log returned
    m_calls,         \* the archive_url calls of this run: [url, file]
    m_skipped,       \* the links this run skipped: [url, file]
    m_durable        \* the log as loaded, then as of the last completed link

mVars == <<m_pc, now, disk, m_contents, m_git, log_data, changed_files,
           all_files_links, m_file, m_link, archive_results, m_discovered,
           m_loaded, m_calls, m_skipped, m_durable>>

vars == <<exVars, svVars, mVars>>

\* None
None == "None"

Services == {"wayback_machine", "archive_today"}

NotReturned == [returned |-> FALSE, success |-> FALSE, archived_url |-> None]

\* The empty dict.
EmptyDict == [k \in {} |-> None]

ServiceOff ==
    /\ sv_pc = "off"
    /\ sv_entry = ""
    /\ sv_url = ""
    /\ sv_max_retries = 0
    /\ sv_attempt = 0
    /\ sv_ret = [s \in Services |-> NotReturned]
    /\ sv_results = EmptyDict
    /\ sv_events = <<>>

NoHistory == [state |-> "no_repo", diff |-> {}]

MainOff ==
    /\ m_pc = "off"
    /\ now = 0
    /\ disk = [kind |-> "absent", doc |-> EmptyDict]
    /\ m_contents = <<>>
    /\ m_git = NoHistory
    /\ log_data = EmptyDict
    /\ changed_files = {}
    /\ all_files_links = <<>>
    /\ m_file = 0
    /\ m_link = 0
    /\ archive_results = EmptyDict
    /\ m_discovered = <<>>
    /\ m_loaded = EmptyDict
    /\ m_calls = {}
    /\ m_skipped = {}
    /\ m_durable = EmptyDict

\* ------------------------------------------------------------------------
\* get_links_from_all_yaml_files, one file per step.
\* ------------------------------------------------------------------------

NoCall == [raised |-> FALSE, links |-> <<>>, file |-> <<>>]

ExtractOff ==
    /\ ex_pc = "off"
    /\ ex_contents = <<>>
    /\ ex_idx = 0
    /\ ex_results = <<>>
    /\ ex_last = NoCall

ExtractInit ==
    /\ ServiceOff
    /\ MainOff
    /\ ex_pc = "loop"
    /\ ex_contents \in ContentsOfFiles(Len(get_all_yaml_files))
    /\ ex_idx = 1
    /\ ex_results = <<>>
    /\ ex_last = NoCall

\* The file does not parse: the diagnostic is printed, the file gives [].
ExtractParseError ==
    /\ ex_pc = "loop" /\ ex_idx <= Len(get_all_yaml_files)
    /\ ~ex_contents[ex_idx].ok
    /\ \E r \in extract_links_from_yaml(ex_contents[ex_idx]) :
          ex_last' = [raised |-> r.raised, links |-> r.links,
                      file |-> get_all_yaml_files[ex_idx]]
    /\ ex_idx' = ex_idx + 1
    /\ UNCHANGED <<ex_pc, ex_contents, ex_results>>
    /\ UNCHANGED <<svVars, mVars>>

\* The file parses and extract_links_from_yaml returns a list.
ExtractLinks ==
    /\ ex_pc = "loop" /\ ex_idx <= Len(get_all_yaml_files)
    /\ ex_contents[ex_idx].ok
    /\ \E r \in extract_links_from_yaml(ex_contents[ex_idx]) :
          /\ ~r.raised
          /\ ex_last' = [raised |-> FALSE, links |-> r.links,
                         file |-> get_all_yaml_files[ex_idx]]
          /\ ex_results' =
               IF r.links # <<>>
               THEN Append(ex_results,
                           [file |-> get_all_yaml_files[ex_idx], links |-> r.links])
               ELSE ex_results
    /\ ex_idx' = ex_idx + 1
    /\ UNCHANGED <<ex_pc, ex_contents>>
    /\ UNCHANGED <<svVars, mVars>>

\* The file parses and extract_links_from_dict raises: the exception leaves
\* extract_links_from_yaml (only yaml.YAMLError is caught) and the loop.
ExtractRaises ==
    /\ ex_pc = "loop" /\ ex_idx <= Len(get_all_yaml_files)
    /\ ex_contents[ex_idx].ok
    /\ \E r \in extract_links_from_yaml(ex_contents[ex_idx]) :
          /\ r.raised
          /\ ex_last' = [raised |-> TRUE, links |-> <<>>,
                         file |-> get_all_yaml_files[ex_idx]]
    /\ ex_pc' = "raised"
    /\ UNCHANGED <<ex_contents, ex_idx, ex_results>>
    /\ UNCHANGED <<svVars, mVars>>

\* The loop is over: results is returned.
ExtractReturn ==
    /\ ex_pc = "loop" /\ ex_idx > Len(get_all_yaml_files)
    /\ ex_pc' = "done"
    /\ UNCHANGED <<ex_contents, ex_idx, ex_results, ex_last>>
    /\ UNCHANGED <<svVars, mVars>>

ExtractNext ==
    \/ ExtractParseError
    \/ ExtractLinks
    \/ ExtractRaises
    \/ ExtractReturn

ExtractSpec == ExtractInit /\ [][ExtractNext]_vars

\* ------------------------------------------------------------------------
\* The extractor's claims (ExtractSpec).
\* ------------------------------------------------------------------------

Count(q, x) == Cardinality({i \in 1..Len(q) : q[i] = x})

\* The last extract_links_from_yaml call was made, on this content.
ExtractCalled == ex_last.file # <<>>

LastContent ==
    ex_contents[CHOOSE i \in 1..Len(get_all_yaml_files) :
                    get_all_yaml_files[i] = ex_last.file]

\* A mapping of the tree x, at any depth, has the item link: name.
RECURSIVE MappingHasLink(_, _)
MappingHasLink(x, name) ==
    CASE x.t = "dict" ->
           \E i \in 1..Len(x.v) :
              \/ x.v[i].k = "link" /\ x.v[i].val = Str(name)
              \/ MappingHasLink(x.v[i].val, name)
      [] x.t = "list" -> \E i \in 1..Len(x.v) : MappingHasLink(x.v[i], name)
      [] OTHER -> FALSE

\* The mappings the traversal of the mapping x visits: x, the mappings under
\* its keys, and the mappings in the sequences under its keys, except below
\* a key `link` with a truthy value.
RECURSIVE VisitedMappings(_)
VisitedMappings(x) ==
    {x} \cup UNION {
        LET val == x.v[i].val
        IN IF x.v[i].k = "link" /\ Truthy(val) THEN {}
           ELSE IF val.t = "dict" THEN VisitedMappings(val)
           ELSE IF val.t = "list"
                THEN UNION {VisitedMappings(val.v[j]) :
                              j \in {m \in 1..Len(val.v) : val.v[m].t = "dict"}}
                ELSE {} : i \in 1..Len(x.v)}

HasItem(d, k, val) == \E i \in 1..Len(d.v) : d.v[i] = Item(k, val)

SpecExampleList ==
    List(<<Str("https://a.b"), Str("not a url"), Str("https://c.d")>>)

AcceptedExampleList ==
    List(<<Str("https://a.bc/c"), Str("not a url"), Str("https://c.de")>>)

\* C10 as stated: for the mapping
\* link: ["https://a.b", "not a url", "https://c.d"] the extractor returns
\* exactly "https://a.b" and "https://c.d".
C10_AsStated ==
    (ExtractCalled /\ LastContent = Parsed(Dict(<<Item("link", SpecExampleList)>>)))
    => SeqRange(ex_last.links) = {"https://a.b", "https://c.d"}

\* C10 amended: for a mapping whose one key is `link` with a sequence value,
\* the returned list holds exactly the string elements that the pattern
\* accepts, each once: of the strings here "https://a.bc/c" and
\* "https://c.de", and none of "https://a.b", "https://c.d" (final label of
\* one letter) and "not a url".
C10_ExactlyUrlShapedElements ==
    (ExtractCalled /\ LastContent.ok /\ LastContent.data.t = "dict"
       /\ Len(LastContent.data.v) = 1
       /\ LastContent.data.v[1].k = "link"
       /\ LastContent.data.v[1].val.t = "list")
    => LET xs == LastContent.data.v[1].val.v
       IN /\ ~ex_last.raised
          /\ NoDuplicates(ex_last.links)
          /\ SeqRange(ex_last.links) =
               {xs[i].v : i \in {m \in 1..Len(xs) :
                    xs[m].t = "str" /\ xs[m].v \in {"https://a.bc/c", "https://c.de"}}}

\* The case of C10: the list with a string the pattern rejects between two
\* it accepts has been extracted.
C10_Witness ==
    /\ ExtractCalled
    /\ LastContent = Parsed(Dict(<<Item("link", AcceptedExampleList)>>))
    /\ SeqRange(ex_last.links) = {"https://a.bc/c", "https://c.de"}

\* C11 as stated: for every file that parses, whatever the root of its tree,
\* extract_links_from_yaml returns a duplicate-free list and does not raise,
\* and get_links_from_all_yaml_files is not aborted.
C11_TotalOverParsedTrees ==
    /\ ex_pc # "raised"
    /\ (ExtractCalled /\ LastContent.ok)
       => (~ex_last.raised /\ NoDuplicates(ex_last.links))

\* C16 as stated: when the root of the file is a mapping and a mapping of
\* the tree, at any depth and under any nesting of mappings and sequences
\* and any key names, contains link: "https://a.bc/c" (a string the pattern
\* accepts), the returned list holds "https://a.bc/c".
C16_CollectedAtAnyDepth ==
    (ExtractCalled /\ LastContent.ok /\ LastContent.data.t = "dict"
       /\ MappingHasLink(LastContent.data, "https://a.bc/c"))
    => (~ex_last.raised /\ Count(ex_last.links, "https://a.bc/c") >= 1)

\* ------------------------------------------------------------------------
\* The archive services: archive_url_wayback, archive_url_archive_today and
\* archive_url, one HTTP exchange per step. The random delays of archive_url
\* and the user agent change nothing the calls read and are left out.
\* ------------------------------------------------------------------------

\* max_retries: int = 3
DefaultMaxRetries == 3

\* The largest max_retries of a direct call of a service function.
MaxRetriesArg == 3

ServiceUrls == {"https://a.bc/c", "https://c.de"}

\* The statuses other than 200 and 429 a service answers with.
OtherStatuses == {404, 503}

\* 2 ** attempt
RECURSIVE Pow2(_)
Pow2(k) == IF k = 0 THEN 1 ELSE 2 * Pow2(k - 1)

\* A request of a service and what came back: status 0 stands for a
\* requests.RequestException.
Request(svc, op, attempt, status) ==
    [svc |-> svc, op |-> op, attempt |-> attempt, status |-> status, secs |-> 0]

\* time.sleep(secs)
Sleep(svc, attempt, secs) ==
    [svc |-> svc, op |-> "sleep", attempt |-> attempt, status |-> 0, secs |-> secs]

\* A faulty variant of LoopContinues: one attempt too many.
LoopContinues_offByOne(attempt, max_retries) == attempt <= max_retries

\* for attempt in range(max_retries)
LoopContinues(attempt, max_retries) == attempt < max_retries

\* d[k] = v on a dict
DictSet(d, k, v) == [x \in DOMAIN d \cup {k} |-> IF x = k THEN v ELSE d[x]]

\* A faulty variant of ServiceResult: a failed service is recorded without its
\* archived_url.
ServiceResult_bare(success, url) ==
    IF success THEN [success |-> TRUE, archived_url |-> url]
    ELSE [success |-> FALSE]

\* A faulty variant of ServiceResult: the test of the conditional expression
\* is inverted.
ServiceResult_inverted(success, url) ==
    [success |-> success, archived_url |-> IF success THEN None ELSE url]

\* The entry of archive_url's results for one service.
ServiceResult(success, url) ==
    [success |-> success, archived_url |-> IF success THEN url ELSE None]

Returned(success, url) ==
    [returned |-> TRUE, success |-> success, archived_url |-> url]

\* The 200 responses of the snapshot endpoint: whether response.url holds
\* '/web/', and what the body gives: an anchor whose href holds '/web/' and
\* the url, no such anchor, or a failure of the parser.
Wayback200s ==
    {[urlHasWeb |-> TRUE, body |-> "unread"]}
    \cup {[urlHasWeb |-> FALSE, body |-> b] : b \in {"anchor", "no_anchor", "unparsable"}}

\* What archive_url_wayback returns on a 200 response whose body parses.
WaybackArchivedUrl(resp) ==
    IF resp.urlHasWeb THEN "response.url"
    ELSE IF resp.body = "anchor" THEN "https://web.archive.org{href}"
    ELSE "https://web.archive.org/web/*/{url}"

\* archive_url_wayback returns (success, url): to its caller, or into
\* archive_url's results, which goes on with archive_url_archive_today.
WaybackReturns(success, url) ==
    /\ sv_ret' = [sv_ret EXCEPT !["wayback_machine"] = Returned(success, url)]
    /\ IF sv_entry = "archive_url"
       THEN /\ sv_results' = DictSet(sv_results, "wayback_machine",
                                      ServiceResult(success, url))
            /\ sv_pc' = "today_get"
            /\ sv_attempt' = 0
            /\ sv_max_retries' = DefaultMaxRetries
       ELSE /\ sv_pc' = "returned"
            /\ UNCHANGED <<sv_results, sv_attempt, sv_max_retries>>

InWaybackLoop ==
    sv_pc = "wayback" /\ LoopContinues(sv_attempt, sv_max_retries)

Wayback200 ==
    /\ UNCHANGED <<exVars, mVars>>
    /\ InWaybackLoop
    /\ \E resp \in Wayback200s :
          /\ resp.body # "unparsable"
          /\ WaybackReturns(TRUE, WaybackArchivedUrl(resp))
    /\ sv_events' = Append(sv_events,
                           Request("wayback_machine", "GET", sv_attempt, 200))
    /\ UNCHANGED <<sv_entry, sv_url>>

\* BeautifulSoup(response.text, 'html.parser') raises: the exception is no
\* requests.RequestException and leaves the function.
WaybackBodyFailure ==
    /\ UNCHANGED <<exVars, mVars>>
    /\ InWaybackLoop
    /\ \E resp \in Wayback200s : ~resp.urlHasWeb /\ resp.body = "unparsable"
    /\ sv_events' = Append(sv_events,
                           Request("wayback_machine", "GET", sv_attempt, 200))
    /\ sv_pc' = "raised"
    /\ UNCHANGED <<sv_entry, sv_url, sv_max_retries, sv_attempt, sv_ret, sv_results>>

Wayback429 ==
    /\ UNCHANGED <<exVars, mVars>>
    /\ InWaybackLoop
    /\ sv_events' = sv_events
                      \o <<Request("wayback_machine", "GET", sv_attempt, 429),
                           Sleep("wayback_machine", sv_attempt, Pow2(sv_attempt))>>
    /\ sv_attempt' = sv_attempt + 1
    /\ UNCHANGED <<sv_pc, sv_entry, sv_url, sv_max_retries, sv_ret, sv_results>>

\* A faulty variant of WaybackOtherStatus: the status is handled as a 429 is.
WaybackOtherStatus_retries ==
    /\ UNCHANGED <<exVars, mVars>>
    /\ InWaybackLoop
    /\ \E status \in OtherStatuses :
          sv_events' = sv_events
                         \o <<Request("wayback_machine", "GET", sv_attempt, status),
                              Sleep("wayback_machine", sv_attempt, Pow2(sv_attempt))>>
    /\ sv_attempt' = sv_attempt + 1
    /\ UNCHANGED <<sv_pc, sv_entry, sv_url, sv_max_retries, sv_ret, sv_results>>

\* Any other status: return False, None
WaybackOtherStatus ==
    /\ UNCHANGED <<exVars, mVars>>
    /\ InWaybackLoop
    /\ \E status \in OtherStatuses :
          sv_events' = Append(sv_events,
                              Request("wayback_machine", "GET", sv_attempt, status))
    /\ WaybackReturns(FALSE, None)
    /\ UNCHANGED <<sv_entry, sv_url>>

WaybackRequestException ==
    /\ UNCHANGED <<exVars, mVars>>
    /\ InWaybackLoop
    /\ IF sv_attempt < sv_max_retries - 1
       THEN /\ sv_events' = sv_events
                      \o <<Request("wayback_machine", "GET", sv_attempt, 0),
                           Sleep("wayback_machine", sv_attempt, Pow2(sv_attempt))>>
            /\ sv_attempt' = sv_attempt + 1
            /\ UNCHANGED <<sv_pc, sv_max_retries, sv_ret, sv_results>>
       ELSE /\ sv_events' = Append(sv_events,
                                   Request("wayback_machine", "GET", sv_attempt, 0))
            /\ WaybackReturns(FALSE, None)
    /\ UNCHANGED <<sv_entry, sv_url>>

\* The loop is over: return False, None
WaybackLoopEnd ==
    /\ UNCHANGED <<exVars, mVars>>
    /\ sv_pc = "wayback" /\ ~LoopContinues(sv_attempt, sv_max_retries)
    /\ WaybackReturns(FALSE, None)
    /\ UNCHANGED <<sv_entry, sv_url, sv_events>>

\* The 200 responses of the submit endpoint: whether response.url holds the
\* service's domain, and what the body gives: a failure of the parser, or
\* whether an anchor's href holds the domain and the url (anchor), whether
\* the text holds 'already been saved' (saved), and whether an anchor's
\* href starts with '/' and is longer than 2 (rooted).
Today200s ==
    {[urlInDomain |-> TRUE, parses |-> TRUE,
      anchor |-> FALSE, saved |-> FALSE, rooted |-> FALSE]}
    \cup {[urlInDomain |-> FALSE, parses |-> FALSE,
           anchor |-> FALSE, saved |-> FALSE, rooted |-> FALSE]}
    \cup {[urlInDomain |-> FALSE, parses |-> TRUE,
           anchor |-> a, saved |-> sv, rooted |-> r] :
             a \in BOOLEAN, sv \in BOOLEAN, r \in BOOLEAN}

\* What archive_url_archive_today returns on a 200 response whose body
\* parses.
TodayArchivedUrl(resp) ==
    IF resp.urlInDomain THEN "response.url"
    ELSE IF resp.anchor THEN "{href}"
    ELSE IF resp.saved /\ resp.rooted THEN "https://archive.today{href}"
    ELSE "https://archive.today/{url}"

\* archive_url_archive_today returns (success, url): to its caller, or into
\* archive_url's results, which archive_url then returns.
TodayReturns(success, url) ==
    /\ sv_ret' = [sv_ret EXCEPT !["archive_today"] = Returned(success, url)]
    /\ sv_results' = IF sv_entry = "archive_url"
                     THEN DictSet(sv_results, "archive_today",
                                  ServiceResult(success, url))
                     ELSE sv_results
    /\ sv_pc' = "returned"
    /\ UNCHANGED <<sv_attempt, sv_max_retries>>

\* A faulty variant of TodayRetryOrGiveUp: the failure ends the call at once,
\* as another status does in archive_url_wayback.
TodayRetryOrGiveUp_failFast(events) ==
    /\ sv_events' = events
    /\ TodayReturns(FALSE, None)

\* The handler of a failed attempt that retries: sleep unless it was the
\* last attempt, and then return False, None.
TodayRetryOrGiveUp(events) ==
    IF sv_attempt < sv_max_retries - 1
    THEN /\ sv_events' = Append(events,
                    Sleep("archive_today", sv_attempt, Pow2(sv_attempt)))
         /\ sv_attempt' = sv_attempt + 1
         /\ sv_pc' = "today_get"
         /\ UNCHANGED <<sv_max_retries, sv_ret, sv_results>>
    ELSE /\ sv_events' = events
         /\ TodayReturns(FALSE, None)

\* session.get("https://archive.today/") answers; its status is not read.
TodayGet ==
    /\ UNCHANGED <<exVars, mVars>>
    /\ sv_pc = "today_get" /\ LoopContinues(sv_attempt, sv_max_retries)
    /\ sv_events' = Append(sv_events,
                           Request("archive_today", "GET", sv_attempt, 200))
    /\ sv_pc' = "today_post"
    /\ UNCHANGED <<sv_entry, sv_url, sv_max_retries, sv_attempt, sv_ret, sv_results>>

TodayGetException ==
    /\ UNCHANGED <<exVars, mVars>>
    /\ sv_pc = "today_get" /\ LoopContinues(sv_attempt, sv_max_retries)
    /\ TodayRetryOrGiveUp(Append(sv_events,
                                 Request("archive_today", "GET", sv_attempt, 0)))
    /\ UNCHANGED <<sv_entry, sv_url>>

\* The three tests of a 200 response that find an archived location.
TodayLocated(resp) ==
    resp.urlInDomain \/ resp.anchor \/ (resp.saved /\ resp.rooted)

\* A faulty variant of TodayPost200: without a located archive the 200
\* response is returned as a failure.
TodayPost200_strict ==
    /\ UNCHANGED <<exVars, mVars>>
    /\ sv_pc = "today_post"
    /\ \E resp \in Today200s :
          /\ resp.parses
          /\ IF TodayLocated(resp)
             THEN TodayReturns(TRUE, TodayArchivedUrl(resp))
             ELSE TodayReturns(FALSE, None)
    /\ sv_events' = Append(sv_events,
                           Request("archive_today", "POST", sv_attempt, 200))
    /\ UNCHANGED <<sv_entry, sv_url>>

\* Status 200: one of the four returns of lines 120-137.
TodayPost200 ==
    /\ UNCHANGED <<exVars, mVars>>
    /\ sv_pc = "today_post"
    /\ \E resp \in Today200s :
          /\ resp.parses
          /\ TodayReturns(TRUE, TodayArchivedUrl(resp))
    /\ sv_events' = Append(sv_events,
                           Request("archive_today", "POST", sv_attempt, 200))
    /\ UNCHANGED <<sv_entry, sv_url>>

\* BeautifulSoup(response.text, 'html.parser') raises: the exception is no
\* requests.RequestException and leaves the function.
TodayBodyFailure ==
    /\ UNCHANGED <<exVars, mVars>>
    /\ sv_pc = "today_post"
    /\ \E resp \in Today200s : ~resp.urlInDomain /\ ~resp.parses
    /\ sv_events' = Append(sv_events,
                           Request("archive_today", "POST", sv_attempt, 200))
    /\ sv_pc' = "raised"
    /\ UNCHANGED <<sv_entry, sv_url, sv_max_retries, sv_attempt, sv_ret, sv_results>>

TodayPost429 ==
    /\ UNCHANGED <<exVars, mVars>>
    /\ sv_pc = "today_post"
    /\ sv_events' = sv_events
                      \o <<Request("archive_today", "POST", sv_attempt, 429),
                           Sleep("archive_today", sv_attempt, Pow2(sv_attempt))>>
    /\ sv_attempt' = sv_attempt + 1
    /\ sv_pc' = "today_get"
    /\ UNCHANGED <<sv_entry, sv_url, sv_max_retries, sv_ret, sv_results>>

TodayPostOtherStatus ==
    /\ UNCHANGED <<exVars, mVars>>
    /\ sv_pc = "today_post"
    /\ \E status \in OtherStatuses :
          TodayRetryOrGiveUp(Append(sv_events,
                  Request("archive_today", "POST", sv_attempt, status)))
    /\ UNCHANGED <<sv_entry, sv_url>>

TodayPostException ==
    /\ UNCHANGED <<exVars, mVars>>
    /\ sv_pc = "today_post"
    /\ TodayRetryOrGiveUp(Append(sv_events,
                                 Request("archive_today", "POST", sv_attempt, 0)))
    /\ UNCHANGED <<sv_entry, sv_url>>

\* The loop is over: return False, None
TodayLoopEnd ==
    /\ UNCHANGED <<exVars, mVars>>
    /\ sv_pc = "today_get" /\ ~LoopContinues(sv_attempt, sv_max_retries)
    /\ TodayReturns(FALSE, None)
    /\ UNCHANGED <<sv_entry, sv_url, sv_events>>

\* archive_url(url): results = {}, then archive_url_wayback(url).
CallArchiveUrl ==
    /\ UNCHANGED <<exVars, mVars>>
    /\ sv_pc = "idle"
    /\ \E url \in ServiceUrls : sv_url' = url
    /\ sv_entry' = "archive_url"
    /\ sv_pc' = "wayback"
    /\ sv_max_retries' = DefaultMaxRetries
    /\ sv_attempt' = 0
    /\ sv_results' = EmptyDict
    /\ UNCHANGED <<sv_ret, sv_events>>

\* archive_url_wayback(url, max_retries)
CallWayback ==
    /\ UNCHANGED <<exVars, mVars>>
    /\ sv_pc = "idle"
    /\ \E url \in ServiceUrls : sv_url' = url
    /\ \E n \in 0..MaxRetriesArg : sv_max_retries' = n
    /\ sv_entry' = "archive_url_wayback"
    /\ sv_pc' = "wayback"
    /\ sv_attempt' = 0
    /\ UNCHANGED <<sv_ret, sv_results, sv_events>>

\* archive_url_archive_today(url, max_retries)
CallArchiveToday ==
    /\ UNCHANGED <<exVars, mVars>>
    /\ sv_pc = "idle"
    /\ \E url \in ServiceUrls : sv_url' = url
    /\ \E n \in 0..MaxRetriesArg : sv_max_retries' = n
    /\ sv_entry' = "archive_url_archive_today"
    /\ sv_pc' = "today_get"
    /\ sv_attempt' = 0
    /\ UNCHANGED <<sv_ret, sv_results, sv_events>>

ServiceInit ==
    /\ ExtractOff
    /\ MainOff
    /\ sv_pc = "idle"
    /\ sv_entry = ""
    /\ sv_url = ""
    /\ sv_max_retries = 0
    /\ sv_attempt = 0
    /\ sv_ret = [s \in Services |-> NotReturned]
    /\ sv_results = EmptyDict
    /\ sv_events = <<>>

ServiceNext ==
    \/ CallArchiveUrl
    \/ CallWayback
    \/ CallArchiveToday
    \/ Wayback200
    \/ WaybackBodyFailure
    \/ Wayback429
    \/ WaybackOtherStatus
    \/ WaybackRequestException
    \/ WaybackLoopEnd
    \/ TodayGet
    \/ TodayGetException
    \/ TodayPost200
    \/ TodayBodyFailure
    \/ TodayPost429
    \/ TodayPostOtherStatus
    \/ TodayPostException
    \/ TodayLoopEnd

ServiceSpec == ServiceInit /\ [][ServiceNext]_vars

\* ------------------------------------------------------------------------
\* The services' claims (ServiceSpec).
\* ------------------------------------------------------------------------

\* The requests of a service so far.
RequestsOf(svc, op) ==
    SelectSeq(sv_events, LAMBDA e : e.svc = svc /\ e.op = op)

AllAnswered(reqs, status) == \A i \in 1..Len(reqs) : reqs[i].status = status

WaybackCalled == sv_entry \in {"archive_url", "archive_url_wayback"}

\* C3: archive_url_wayback(url, max_retries = n) never issues more than n
\* GETs; when it has returned and every GET was answered 429, it issued
\* exactly n GETs (3 under archive_url, which passes the default) and
\* returned (False, None).
C3_WaybackRetryBound ==
    WaybackCalled =>
      LET gets == RequestsOf("wayback_machine", "GET")
      IN /\ Len(gets) <= sv_max_retries
         /\ (sv_ret["wayback_machine"].returned /\ AllAnswered(gets, 429))
            => /\ Len(gets) = sv_max_retries
               /\ sv_entry = "archive_url" => Len(gets) = 3
               /\ sv_ret["wayback_machine"] = Returned(FALSE, None)

\* The case of C3: three GETs, all answered 429, and the call has returned.
C3_Witness ==
    /\ sv_entry = "archive_url"
    /\ sv_ret["wayback_machine"].returned
    /\ Len(RequestsOf("wayback_machine", "GET")) = 3
    /\ AllAnswered(RequestsOf("wayback_machine", "GET"), 429)

ArchiveUrlReturned == sv_entry = "archive_url" /\ sv_pc = "returned"

\* C4: the mapping archive_url returns has exactly the keys wayback_machine
\* and archive_today, each mapped to a result with exactly the fields
\* success and archived_url.
C4_BothServicesInResult ==
    ArchiveUrlReturned =>
      /\ DOMAIN sv_results = {"wayback_machine", "archive_today"}
      /\ \A s \in DOMAIN sv_results :
            DOMAIN sv_results[s] = {"success", "archived_url"}

\* The case of C4: archive_url has returned after an HTTP failure of the
\* one service and the exhausted retries of the other.
C4_Witness ==
    /\ ArchiveUrlReturned
    /\ \E i \in 1..Len(sv_events) :
          sv_events[i].svc = "wayback_machine" /\ sv_events[i].status = 404
    /\ Len(RequestsOf("archive_today", "GET")) = 3
    /\ ~sv_results["wayback_machine"].success
    /\ ~sv_results["archive_today"].success

\* C5 as stated: no failure of a service call leaves archive_url_wayback,
\* archive_url_archive_today or archive_url as an exception.
C5_NeverRaises == sv_pc # "raised"

\* The requests and sleeps of one service, in order.
EventsOf(svc) == SelectSeq(sv_events, LAMBDA e : e.svc = svc)

\* C14: a GET of archive_url_wayback answered with a status other than 200
\* and 429 is the last thing the call does, at whatever attempt it arrives:
\* no sleep and no GET follows it, and the call has returned (False, None).
C14_WaybackFailsFast ==
    LET ev == EventsOf("wayback_machine")
    IN \A i \in 1..Len(ev) :
          (ev[i].op = "GET" /\ ev[i].status \in OtherStatuses)
          => /\ i = Len(ev)
             /\ sv_ret["wayback_machine"] = Returned(FALSE, None)

\* The case of C14: after a 429 and a network exception, the third GET is
\* answered 404 and the call has returned.
C14_Witness ==
    LET ev == EventsOf("wayback_machine")
    IN /\ Len(ev) = 5
       /\ ev[1].op = "GET" /\ ev[1].status = 429
       /\ ev[3].op = "GET" /\ ev[3].status = 0
       /\ ev[5].op = "GET" /\ ev[5].status = 404
       /\ sv_ret["wayback_machine"] = Returned(FALSE, None)

TodayCalled == sv_pc \in {"today_get", "today_post"} \/ sv_ret["archive_today"].returned

\* The requests of archive_url_archive_today's attempt k.
TodayAttempt(op, k) ==
    SelectSeq(sv_events, LAMBDA e : e.svc = "archive_today" /\ e.op = op /\ e.attempt = k)

\* C15: archive_url_archive_today(url, max_retries = n) makes at most n
\* attempts, each one GET followed by at most one POST (none when the GET
\* failed); when the call has returned and no POST was answered 200, n
\* attempts were made, whatever failed in each (429, another status, a
\* network exception), and the result is (False, None).
C15_TodayRetriesEveryFailure ==
    TodayCalled =>
      LET gets == RequestsOf("archive_today", "GET")
          posts == RequestsOf("archive_today", "POST")
      IN /\ Len(gets) <= sv_max_retries
         /\ \A i \in 1..Len(gets) : gets[i].attempt = i - 1
         /\ \A k \in 0..MaxRetriesArg :
               /\ Len(TodayAttempt("POST", k)) <= 1
               /\ Len(TodayAttempt("POST", k)) = 1
                  => TodayAttempt("GET", k) =
                        <<Request("archive_today", "GET", k, 200)>>
         /\ (sv_ret["archive_today"].returned
               /\ \A i \in 1..Len(posts) : posts[i].status # 200)
            => /\ Len(gets) = sv_max_retries
               /\ sv_ret["archive_today"] = Returned(FALSE, None)

\* The case of C15: three attempts, the first failed by a network exception
\* of the GET, the second by a 404 and the third by a 429 of the POST, and
\* the call has returned.
C15_Witness ==
    /\ sv_entry = "archive_url_archive_today" /\ sv_max_retries = 3
    /\ sv_ret["archive_today"].returned
    /\ TodayAttempt("GET", 0) = <<Request("archive_today", "GET", 0, 0)>>
    /\ TodayAttempt("POST", 0) = <<>>
    /\ TodayAttempt("POST", 1) = <<Request("archive_today", "POST", 1, 404)>>
    /\ TodayAttempt("POST", 2) = <<Request("archive_today", "POST", 2, 429)>>

\* C17 as stated: archive_url_archive_today returns success = True only
\* with the location of a 200 response that passes one of the three tests
\* (final URL in the service's domain, matching anchor, already saved with
\* a root-relative anchor).
C17_AsStated ==
    (sv_ret["archive_today"].returned /\ sv_ret["archive_today"].success)
    => \E resp \in Today200s :
          /\ resp.parses /\ TodayLocated(resp)
          /\ sv_ret["archive_today"].archived_url = TodayArchivedUrl(resp)

\* C17 amended: archive_url_archive_today returns success = True exactly
\* when its last POST was answered 200 (and the body was inspected without
\* an exception), with the location one of the three tests finds, or, when
\* none of them passes, the synthesized "https://archive.today/{url}"; a
\* response with another status is never returned as a success.
C17_SuccessOnEvery200 ==
    sv_ret["archive_today"].returned =>
      LET posts == RequestsOf("archive_today", "POST")
          ret == sv_ret["archive_today"]
      IN /\ ret.success <=> (posts # <<>> /\ posts[Len(posts)].status = 200)
         /\ ret.success =>
              \E resp \in Today200s :
                 /\ resp.parses
                 /\ ret.archived_url = TodayArchivedUrl(resp)
                 /\ ~TodayLocated(resp)
                    <=> ret.archived_url = "https://archive.today/{url}"

\* The case of C17: a 200 response that passes none of the three tests has
\* been returned as a success with the synthesized location.
C17_Witness ==
    /\ sv_ret["archive_today"] = Returned(TRUE, "https://archive.today/{url}")
    /\ LET posts == RequestsOf("archive_today", "POST")
       IN posts # <<>> /\ posts[Len(posts)].status = 200

\* The attempt of the request failed with HTTP 429 or a network exception.
FailedBy429OrException(e) == e.op \in {"GET", "POST"} /\ e.status \in {429, 0}

\* C18 as stated: in each service, every attempt k that fails with a 429 or
\* with a network exception is followed by a wait of 2^k seconds, the one
\* as the other, so that the waits of a call depend only on the number of
\* failed attempts.
C18_SameBackoff ==
    \A svc \in Services :
       LET ev == EventsOf(svc)
       IN \A i \in 1..Len(ev) :
             FailedBy429OrException(ev[i])
             => /\ i < Len(ev)
                /\ ev[i + 1] = Sleep(svc, ev[i].attempt, Pow2(ev[i].attempt))

\* The archived locations a service function returns with success.
Locations ==
    {WaybackArchivedUrl(resp) : resp \in {r \in Wayback200s : r.body # "unparsable"}}
    \cup {TodayArchivedUrl(resp) : resp \in {r \in Today200s : r.parses}}

\* C20: in what a service function has returned and in every entry of
\* archive_url's results, success is False exactly when archived_url is
\* None, and a success carries an archived location string.
C20_ServiceResultWellFormed ==
    /\ \A s \in Services :
          sv_ret[s].returned =>
             /\ ~sv_ret[s].success <=> sv_ret[s].archived_url = None
             /\ sv_ret[s].success => sv_ret[s].archived_url \in Locations
    /\ \A s \in DOMAIN sv_results :
          /\ ~sv_results[s].success <=> sv_results[s].archived_url = None
          /\ sv_results[s].success => sv_results[s].archived_url \in Locations

\* The case of C20: archive_url has returned a success of the one service
\* with the synthesized location and a failure of the other.
C20_Witness ==
    /\ ArchiveUrlReturned
    /\ sv_results["wayback_machine"] =
          [success |-> TRUE, archived_url |-> "https://web.archive.org/web/*/{url}"]
    /\ sv_results["archive_today"] = [success |-> FALSE, archived_url |-> None]

\* ------------------------------------------------------------------------
\* main(): the orchestrator and its log file, run after run.
\* ------------------------------------------------------------------------

\* The number of runs of main().
MaxRuns == 2

\* The content of the working tree's files in a run of main().
MainFirstContents ==
    {Parsed(Dict(<<Item("link", Str("https://a.bc/c"))>>)),
     Parsed(Dict(<<Item("link", List(<<Str("https://a.bc/c"), Str("https://c.de")>>))>>)),
     Parsed(List(<<Str("https://a.bc/c")>>))}

MainLaterContents ==
    {Parsed(Dict(<<Item("link", Str("https://a.bc/c"))>>)),
     Parsed(Dict(<<Item("refs", List(<<Str("https://c.de")>>))>>)),
     Unparsable}

RECURSIVE MainContentsOfFiles(_)
MainContentsOfFiles(n) ==
    IF n = 0 THEN {<<>>}
    ELSE IF n = 1 THEN {<<c>> : c \in MainFirstContents}
    ELSE {Append(cs, c) : cs \in MainContentsOfFiles(n - 1), c \in MainLaterContents}

\* get_links_from_all_yaml_files() from file i on: the outcomes
\* [raised, results].
RECURSIVE LinksOfFilesFrom(_, _)
LinksOfFilesFrom(i, contents) ==
    IF i > Len(get_all_yaml_files) THEN {[raised |-> FALSE, results |-> <<>>]}
    ELSE UNION {
           IF r.raised THEN {[raised |-> TRUE, results |-> <<>>]}
           ELSE {[raised |-> rest.raised,
                  results |->
                    IF rest.raised THEN <<>>
                    ELSE (IF r.links # <<>>
                          THEN <<[file |-> get_all_yaml_files[i], links |-> r.links]>>
                          ELSE <<>>) \o rest.results] :
                   rest \in LinksOfFilesFrom(i + 1, contents)} :
           r \in extract_links_from_yaml(contents[i])}

get_links_from_all_yaml_files(contents) == LinksOfFilesFrom(1, contents)

\* The diff of the head commit against its parent: items [a_path, b_path],
\* paths relative to the repository's root.
DiffItems ==
    {[a_path |-> <<"a", ".yaml">>, b_path |-> <<"a", ".yaml">>],
     [a_path |-> <<"d", "b", ".yml">>, b_path |-> <<"d", "b", ".yml">>],
     [a_path |-> <<"README", ".md">>, b_path |-> <<"README", ".md">>]}

\* The diffs of the head commits of the model.
Diffs ==
    {{}, {d \in DiffItems : ~EndsWithYaml(d.a_path)},
     {d \in DiffItems : d.a_path = <<"a", ".yaml">>},
     {d \in DiffItems : EndsWithYaml(d.a_path)}, DiffItems}

\* The version-control history of a run: no repository, no parent commit,
\* or a head commit with its diff.
GitStates ==
    {[state |-> st, diff |-> {}] : st \in {"no_repo", "no_parent"}}
    \cup {[state |-> "ok", diff |-> d] : d \in Diffs}

\* get_changed_yaml_files(): git.Repo('.') or diff('HEAD~1') raises when
\* there is no repository or no parent, and the handler returns set().
get_changed_yaml_files(git) ==
    IF git.state # "ok" THEN {}
    ELSE UNION {IF EndsWithYaml(item.a_path) \/ EndsWithYaml(item.b_path)
                THEN (IF item.a_path # <<>> THEN {item.a_path} ELSE {})
                     \cup (IF item.b_path # <<>> THEN {item.b_path} ELSE {})
                ELSE {} : item \in git.diff}

\* A faulty variant of FilterChanged: the filter is applied to an empty set too.
FilterChanged_always(links, changed) ==
    SelectSeq(links, LAMBDA item : item.file \in changed)

\* if changed_files: all_files_links = {f: links ... if f in changed_files}
FilterChanged(links, changed) ==
    IF changed # {}
    THEN SelectSeq(links, LAMBDA item : item.file \in changed)
    ELSE links

\* load_existing_log()["archived_links"]: the document of the file, or the
\* empty log when the file is missing or json.load raises JSONDecodeError.
load_existing_log(file) ==
    IF file.kind = "valid" THEN file.doc ELSE EmptyDict

\* A faulty variant of AlreadyArchived: a gate per service, every one successful.
AlreadyArchived_everyService(log, link) ==
    /\ link \in DOMAIN log
    /\ \A s \in DOMAIN log[link].services : log[link].services[s].success

\* The success gate: link in log and any(service["success"] ...)
AlreadyArchived(log, link) ==
    /\ link \in DOMAIN log
    /\ \E s \in DOMAIN log[link].services : log[link].services[s].success

\* The results archive_url returns to main().
ArchiveUrlOutcomes ==
    {[wayback_machine |-> ServiceResult(ws, "response.url"),
      archive_today |-> ServiceResult(ts, "response.url")] :
        ws \in BOOLEAN, ts \in BOOLEAN}

\* for service, result in archive_results.items(): services[service] = result
MergeServices(old, new) ==
    [s \in DOMAIN old \cup DOMAIN new |-> IF s \in DOMAIN new THEN new[s] ELSE old[s]]

\* A faulty variant of MergedFiles: the path is appended without the test.
MergedFiles_always(files, path) == Append(files, path)

\* if file_path not in files: files.append(file_path)
MergedFiles(files, path) ==
    IF path \in SeqRange(files) THEN files ELSE Append(files, path)

\* A faulty variant of MergeRecord: an existing entry is replaced by a new one.
MergeRecord_recreate(log, link, path, results, timestamp) ==
    DictSet(log, link,
            [original_url |-> link, first_seen |-> timestamp,
             files |-> <<path>>, services |-> results])

\* The log after the create-or-update of link's entry.
MergeRecord(log, link, path, results, timestamp) ==
    IF link \notin DOMAIN log
    THEN DictSet(log, link,
                 [original_url |-> link, first_seen |-> timestamp,
                  files |-> <<path>>, services |-> results])
    ELSE DictSet(log, link,
                 [original_url |-> log[link].original_url,
                  first_seen |-> log[link].first_seen,
                  last_updated |-> timestamp,
                  files |-> MergedFiles(log[link].files, path),
                  services |-> MergeServices(log[link].services, results)])

HasLink == m_file <= Len(all_files_links)
CurrentFile == all_files_links[m_file].file
CurrentLink == all_files_links[m_file].links[m_link]

\* The next link of the two loops.
Advance ==
    IF m_link < Len(all_files_links[m_file].links)
    THEN m_link' = m_link + 1 /\ m_file' = m_file
    ELSE m_link' = 1 /\ m_file' = m_file + 1

RunOver == m_pc \in {"done", "killed", "raised"}

\* The process is gone, and the state of its run with it: the file and
\* m_durable remain.
ProcessExits(how) ==
    /\ m_pc' = how
    /\ m_contents' = <<>>
    /\ m_git' = NoHistory
    /\ log_data' = EmptyDict
    /\ changed_files' = {}
    /\ all_files_links' = <<>>
    /\ m_file' = 0
    /\ m_link' = 0
    /\ archive_results' = EmptyDict
    /\ m_discovered' = <<>>
    /\ m_loaded' = EmptyDict
    /\ m_calls' = {}
    /\ m_skipped' = {}
    /\ UNCHANGED <<now, disk, m_durable>>

MainInit ==
    /\ ExtractOff
    /\ ServiceOff
    /\ m_pc = "start"
    /\ now = 0
    /\ disk = [kind |-> "absent", doc |-> EmptyDict]
    /\ m_contents = <<>>
    /\ m_git = NoHistory
    /\ log_data = EmptyDict
    /\ changed_files = {}
    /\ all_files_links = <<>>
    /\ m_file = 0
    /\ m_link = 0
    /\ archive_results = EmptyDict
    /\ m_discovered = <<>>
    /\ m_loaded = EmptyDict
    /\ m_calls = {}
    /\ m_skipped = {}
    /\ m_durable = EmptyDict

\* main() up to its loops: the log is loaded, the links extracted, the
\* changed files asked for and the working set filtered.
MainStart ==
    /\ UNCHANGED <<exVars, svVars>>
    /\ (m_pc = "start" \/ RunOver) /\ now < MaxRuns
    /\ \E contents \in MainContentsOfFiles(Len(get_all_yaml_files)) :
       \E git \in GitStates :
       \E ext \in get_links_from_all_yaml_files(contents) :
          /\ ~ext.raised
          /\ m_contents' = contents
          /\ m_git' = git
          /\ m_discovered' = ext.results
          /\ changed_files' = get_changed_yaml_files(git)
          /\ all_files_links' = FilterChanged(ext.results, get_changed_yaml_files(git))
    /\ log_data' = load_existing_log(disk)
    /\ m_loaded' = load_existing_log(disk)
    /\ m_durable' = load_existing_log(disk)
    /\ now' = now + 1
    /\ m_file' = 1 /\ m_link' = 1
    /\ m_calls' = {} /\ m_skipped' = {}
    /\ archive_results' = EmptyDict
    /\ m_pc' = "loop"
    /\ UNCHANGED disk

\* main() when get_links_from_all_yaml_files raises: the run ends with the
\* log loaded and nothing else done.
MainStartRaises ==
    /\ UNCHANGED <<exVars, svVars>>
    /\ (m_pc = "start" \/ RunOver) /\ now < MaxRuns
    /\ \E contents \in MainContentsOfFiles(Len(get_all_yaml_files)) :
       \E ext \in get_links_from_all_yaml_files(contents) : ext.raised
    /\ m_pc' = "raised"
    /\ m_contents' = <<>>
    /\ m_git' = NoHistory
    /\ log_data' = EmptyDict
    /\ changed_files' = {}
    /\ all_files_links' = <<>>
    /\ m_file' = 0
    /\ m_link' = 0
    /\ archive_results' = EmptyDict
    /\ m_discovered' = <<>>
    /\ m_loaded' = EmptyDict
    /\ m_calls' = {}
    /\ m_skipped' = {}
    /\ m_durable' = load_existing_log(disk)
    /\ now' = now + 1
    /\ UNCHANGED disk

\* The link is already archived: continue.
SkipLink ==
    /\ UNCHANGED <<exVars, svVars>>
    /\ m_pc = "loop" /\ HasLink
    /\ AlreadyArchived(log_data, CurrentLink)
    /\ m_skipped' = m_skipped \cup {[url |-> CurrentLink, file |-> CurrentFile]}
    /\ Advance
    /\ UNCHANGED <<m_pc, now, disk, m_contents, m_git, log_data, changed_files,
                   all_files_links, archive_results, m_discovered, m_loaded,
                   m_calls, m_durable>>

\* archive_url(link) is called.
CallArchive ==
    /\ UNCHANGED <<exVars, svVars>>
    /\ m_pc = "loop" /\ HasLink
    /\ ~AlreadyArchived(log_data, CurrentLink)
    /\ m_calls' = m_calls \cup {[url |-> CurrentLink, file |-> CurrentFile]}
    /\ m_pc' = "archiving"
    /\ UNCHANGED <<now, disk, m_contents, m_git, log_data, changed_files,
                   all_files_links, m_file, m_link, archive_results, m_discovered,
                   m_loaded, m_skipped, m_durable>>

\* archive_url returns and the entry of the link is created or updated.
ArchiveReturns ==
    /\ UNCHANGED <<exVars, svVars>>
    /\ m_pc = "archiving"
    /\ \E results \in ArchiveUrlOutcomes :
          /\ archive_results' = results
          /\ log_data' = MergeRecord(log_data, CurrentLink, CurrentFile, results, now)
    /\ m_pc' = "save"
    /\ UNCHANGED <<now, disk, m_contents, m_git, changed_files, all_files_links,
                   m_file, m_link, m_discovered, m_loaded, m_calls, m_skipped,
                   m_durable>>

\* archive_url raises (a failure while a response body is inspected): the
\* exception ends main().
ArchiveRaises ==
    /\ UNCHANGED <<exVars, svVars>>
    /\ m_pc = "archiving"
    /\ ProcessExits("raised")

\* save_log: open(LOG_FILE, 'w') truncates the file.
SaveOpen ==
    /\ UNCHANGED <<exVars, svVars>>
    /\ m_pc = "save"
    /\ disk' = [kind |-> "corrupt", doc |-> EmptyDict]
    /\ m_pc' = "dump"
    /\ UNCHANGED <<now, m_contents, m_git, log_data, changed_files, all_files_links,
                   m_file, m_link, archive_results, m_discovered, m_loaded,
                   m_calls, m_skipped, m_durable>>

\* save_log: json.dump writes the document and the file is closed; then
\* time.sleep(1) and the next link.
SaveDump ==
    /\ UNCHANGED <<exVars, svVars>>
    /\ m_pc = "dump"
    /\ disk' = [kind |-> "valid", doc |-> log_data]
    /\ m_durable' = log_data
    /\ Advance
    /\ m_pc' = "loop"
    /\ UNCHANGED <<now, m_contents, m_git, log_data, changed_files, all_files_links,
                   archive_results, m_discovered, m_loaded, m_calls, m_skipped>>

\* The loops are over.
MainReturns ==
    /\ UNCHANGED <<exVars, svVars>>
    /\ m_pc = "loop" /\ ~HasLink
    /\ ProcessExits("done")

\* The process is terminated: between links, during archive_url, or during
\* save_log before or after the file is opened.
Interrupt ==
    /\ UNCHANGED <<exVars, svVars>>
    /\ m_pc \in {"loop", "archiving", "save", "dump"}
    /\ ProcessExits("killed")

Next ==
    \/ MainStart
    \/ MainStartRaises
    \/ SkipLink
    \/ CallArchive
    \/ ArchiveReturns
    \/ ArchiveRaises
    \/ SaveOpen
    \/ SaveDump
    \/ MainReturns
    \/ Interrupt

Spec == MainInit /\ [][Next]_vars

\* ------------------------------------------------------------------------
\* The orchestrator's claims (Spec).
\* ------------------------------------------------------------------------

Running == m_pc \in {"loop", "archiving", "save", "dump"}

HasSuccess(record) ==
    \E s \in DOMAIN record.services : record.services[s].success

\* C1: a URL whose record in the loaded log has a service result with
\* success = true is never passed to archive_url in that run.
C1_SuccessGate ==
    \A c \in m_calls :
        ~(c.url \in DOMAIN m_loaded /\ HasSuccess(m_loaded[c.url]))

\* The case of C1: a URL that the loaded log records with one service
\* successful and the other failed has been skipped in two files.
C1_Witness ==
    /\ Running
    /\ \E u \in DOMAIN m_loaded :
          /\ m_loaded[u].services["wayback_machine"].success
          /\ ~m_loaded[u].services["archive_today"].success
          /\ Cardinality({k \in m_skipped : k.url = u}) = 2
          /\ \A c \in m_calls : c.url # u

\* C2 as stated: when the process is terminated, the log the next run
\* loads from the file holds every record of m_durable: the records loaded
\* at the start of the interrupted run and those of the links completed
\* since.
C2_InterruptedRunKeepsCompletedLinks ==
    m_pc = "killed" =>
      \A u \in DOMAIN m_durable :
          /\ u \in DOMAIN load_existing_log(disk)
          /\ load_existing_log(disk)[u] = m_durable[u]

\* The paths the head commit touched, relative to the repository's root.
Touched(git) == {d.a_path : d \in git.diff} \cup {d.b_path : d \in git.diff}

\* The path of a discovered file relative to the repository's root.
RepoRelative(path) == Tail(path)

\* C6 as stated: when the query succeeds with a non-empty set of changed
\* YAML files, every link-bearing file the head commit touched is kept in
\* the working set.
C6_ChangedFilesKept ==
    (Running /\ m_git.state = "ok" /\ changed_files # {}) =>
      \A i \in 1..Len(m_discovered) :
          RepoRelative(m_discovered[i].file) \in Touched(m_git)
          => \E j \in 1..Len(all_files_links) : all_files_links[j] = m_discovered[i]

\* C7 as stated: when the query succeeds, archive_url is called only for
\* links of files the head commit touched.
C7_OnlyChangedFilesSubmitted ==
    m_git.state = "ok" =>
      \A c \in m_calls : RepoRelative(c.file) \in Touched(m_git)

\* Every link of the working set has been skipped or passed to archive_url.
AllLinksVisited(links) ==
    \A i \in 1..Len(links) : \A k \in 1..Len(links[i].links) :
        [url |-> links[i].links[k], file |-> links[i].file] \in m_calls \cup m_skipped

\* C8: when the query fails (no repository, no parent commit), main() goes
\* on with changed_files empty and the working set is the full set of
\* discovered link-bearing files, every link of which has been visited when
\* the loops end.
C8_FallbackToFullSet ==
    (Running /\ m_git.state # "ok") =>
      /\ changed_files = {}
      /\ all_files_links = m_discovered
      /\ (m_pc = "loop" /\ ~HasLink) => AllLinksVisited(m_discovered)

\* The case of C8: without a parent commit the loops have ended with the
\* links of both files visited.
C8_Witness ==
    /\ m_git.state = "no_parent"
    /\ m_pc = "loop" /\ ~HasLink
    /\ Len(m_discovered) = 2
    /\ m_calls # {}

\* The loops of main() are over and the run is about to return.
LoopsOver == m_pc = "loop" /\ ~HasLink

\* C12 as stated: when the loops of a run are over, for every URL with a
\* record in the loaded log and every file of the working set that lists the
\* URL and was not in the record's files, the record's files holds the path,
\* in memory and in the log file.
C12_FilesGainsPath ==
    LoopsOver =>
      \A i \in 1..Len(all_files_links) :
      \A k \in 1..Len(all_files_links[i].links) :
         LET u == all_files_links[i].links[k]
             f == all_files_links[i].file
         IN (u \in DOMAIN m_loaded /\ f \notin SeqRange(m_loaded[u].files))
            => /\ f \in SeqRange(log_data[u].files)
               /\ f \in SeqRange(load_existing_log(disk)[u].files)

\* The logs of the program: log_data, the document of the log file, and the
\* log as of the last completed link.
Logs == {log_data, load_existing_log(disk), m_durable}

\* C13: no record of a log holds a path twice in its files, whatever the
\* runs so far: the same URL in several files, the same file in several
\* runs.
C13_FilesDuplicateFree ==
    \A log \in Logs : \A u \in DOMAIN log : NoDuplicates(log[u].files)

\* The case of C13: a URL recorded for two files in the first run has been
\* archived again for the first of them in the second run, and its files
\* are the two paths still.
C13_Witness ==
    /\ now = 2 /\ m_pc = "save"
    /\ \E c \in m_calls :
          /\ c.url \in DOMAIN m_loaded
          /\ Len(m_loaded[c.url].files) = 2
          /\ c.file = m_loaded[c.url].files[1]
          /\ "last_updated" \in DOMAIN log_data[c.url]
          /\ log_data[c.url].last_updated = 2
          /\ log_data[c.url].files = m_loaded[c.url].files

\* q starts with p.
IsPrefix(p, q) == Len(p) <= Len(q) /\ SubSeq(q, 1, Len(p)) = p

\* A step of the processing of the current link: the skip, the call of
\* archive_url, the update of the entry, the two steps of save_log.
LinkStep == Running /\ HasLink /\ m_pc' \in {"loop", "archiving", "save", "dump"}

\* C19: a step of the processing of link L keeps every key of
\* archived_links and the record of every URL other than L; of an existing
\* record of L it keeps original_url and first_seen, and files only grows
\* at its end; the skip of a link changes neither the log nor the file.
C19_LinkStepFrame ==
    [][LinkStep =>
         /\ DOMAIN log_data \subseteq DOMAIN log_data'
         /\ \A u \in DOMAIN log_data :
               /\ u # CurrentLink => log_data'[u] = log_data[u]
               /\ log_data'[u].original_url = log_data[u].original_url
               /\ log_data'[u].first_seen = log_data[u].first_seen
               /\ IsPrefix(log_data[u].files, log_data'[u].files)
         /\ m_skipped' # m_skipped
            => (log_data' = log_data /\ disk' = disk)]_vars

\* The case of C19: in the second run the record of the current link, loaded
\* with one file, has been updated and has gained the second file, next to
\* the record of another URL.
C19_Witness ==
    /\ m_pc = "save" /\ now = 2
    /\ CurrentLink \in DOMAIN m_loaded
    /\ Len(m_loaded[CurrentLink].files) = 1
    /\ Len(log_data[CurrentLink].files) = 2
    /\ log_data[CurrentLink].first_seen = 1
    /\ \E u \in DOMAIN log_data : u # CurrentLink

====
